---- MODULE Spec2Model ----
(***************************************************************************)
(* Model of calculator.py (YTM / accrued interest calculator) and of the   *)
(* way app.py drives it: validate_inputs, then complete_calculation.       *)
(*                                                                         *)
(* Dates are triples <<year, month, day>>; differences and comparisons go  *)
(* through the proleptic ordinal, as pandas Timestamps do.  Money is an    *)
(* integer number of minor units, the coupon rate an integer number of     *)
(* percent, yields and the daily rate integer multiples of 1/Scale.        *)
(***************************************************************************)
EXTENDS Integers, Sequences, FiniteSets, TLC

VARIABLES bond, pc, error, payment_dates, cashflows, ier, ytm, daily_rate,
          new_columns, itb, taxable, result

vars == <<bond, pc, error, payment_dates, cashflows, ier, ytm, daily_rate,
          new_columns, itb, taxable, result>>

(***************************************************************************)
(* Bounds of the checked input space.                                      *)
(***************************************************************************)
BaseYear == 2024
MaturitySpan == 1

(***************************************************************************)
(* Fixed-point unit for rates and growth factors (1.0 is Scale).           *)
(***************************************************************************)
Scale == 10000
DaysPerYear == 365
PercentUnit == 100

None == "None"

(***************************************************************************)
(* Calendar: datetime / pandas.Timestamp arithmetic.                       *)
(***************************************************************************)
Year(d) == d[1]
Month(d) == d[2]
Day(d) == d[3]

IsLeap(y) == (y % 4 = 0) /\ ((y % 100 # 0) \/ (y % 400 = 0))

DaysInMonth(y, m) ==
    IF m = 2 THEN (IF IsLeap(y) THEN 29 ELSE 28)
    ELSE IF m \in {4, 6, 9, 11} THEN 30 ELSE 31

RECURSIVE DaysBeforeMonth(_, _)
DaysBeforeMonth(y, m) ==
    IF m = 1 THEN 0 ELSE DaysBeforeMonth(y, m - 1) + DaysInMonth(y, m - 1)

\* date.toordinal()
Ord(d) ==
    LET y1 == Year(d) - 1
    IN  365 * y1 + (y1 \div 4) - (y1 \div 100) + (y1 \div 400)
        + DaysBeforeMonth(Year(d), Month(d)) + Day(d)

\* (a - b).days
DaysBetween(a, b) == Ord(a) - Ord(b)

Before(a, b) == Ord(a) < Ord(b)

\* pd.Timestamp(f"{year}-03-31")
EndOfTaxYear(y) == <<y, 3, 31>>

MonthEnd(y, m) == <<y, m, DaysInMonth(y, m)>>

\* month-end offset arithmetic: the month n months after (y, m)
AddMonthsYear(y, m, n) == y + ((m - 1 + n) \div 12)
AddMonthsMonth(y, m, n) == ((m - 1 + n) % 12) + 1

(***************************************************************************)
(* calculate_coupon_payment_amount: face_value * coupon_rate / frequency,  *)
(* with the rate in percent.                                               *)
(***************************************************************************)
calculate_coupon_payment_amount(face_value, coupon_rate, coupon_frequency) ==
    (face_value * coupon_rate) \div (PercentUnit * coupon_frequency)

(***************************************************************************)
(* pd.date_range(start, end, freq="<n>M"): the month ends from the first   *)
(* month end on or after start, n months apart, up to end.                 *)
(***************************************************************************)
RECURSIVE MonthEndRange(_, _, _, _)
MonthEndRange(y, m, end, n) ==
    IF Before(end, MonthEnd(y, m)) THEN << >>
    ELSE <<MonthEnd(y, m)>>
         \o MonthEndRange(AddMonthsYear(y, m, n), AddMonthsMonth(y, m, n), end, n)

date_range(start, end, n) == MonthEndRange(Year(start), Month(start), end, n)

\* lambda x: x.replace(day=start_date.day) if start_date.day <= x.days_in_month else x
SameDayOfMonth(x, start_date) ==
    IF Day(start_date) <= DaysInMonth(Year(x), Month(x))
    THEN <<Year(x), Month(x), Day(start_date)>>
    ELSE x

InSeq(x, s) == \E i \in 1..Len(s) : s[i] = x

generate_payment_dates(start_date, maturity_date, coupon_frequency) ==
    LET range == date_range(start_date, maturity_date, 12 \div coupon_frequency)
        dates == [i \in 1..Len(range) |-> SameDayOfMonth(range[i], start_date)]
    IN  IF ~InSeq(maturity_date, dates) THEN Append(dates, maturity_date) ELSE dates

(***************************************************************************)
(* populate_cashflows                                                      *)
(***************************************************************************)
Event(date, cash, elapsed) ==
    [Date |-> date, CashFlow |-> cash, ElapsedDays |-> elapsed]

\* line 57: the end of tax year looked for after a payment date
NextEndOfTaxYear(payment_date) ==
    IF Before(payment_date, EndOfTaxYear(Year(payment_date)))
    THEN EndOfTaxYear(Year(payment_date))
    ELSE EndOfTaxYear(Year(payment_date) + 1)

\* lines 44-53: the economic event of loop iteration index (0-based)
AppendPayment(b, cashflow_dates, index, cfs) ==
    LET payment_date == cashflow_dates[index + 1]
        payment_amount == calculate_coupon_payment_amount(
                              b.face_value, b.coupon_rate, b.coupon_frequency)
        elapsed_days == IF index > 0
                        THEN DaysBetween(payment_date, cfs[Len(cfs)].Date)
                        ELSE 0
    IN  IF index = 0
        THEN Append(cfs, Event(payment_date, -b.purchase_price, elapsed_days))
        ELSE IF index = 1
        THEN (IF b.first_coupon_amount # 0
              THEN Append(cfs, Event(payment_date, b.first_coupon_amount, elapsed_days))
              ELSE cfs)
        ELSE IF index = Len(cashflow_dates) - 1
        THEN Append(cfs, Event(payment_date, b.face_value + payment_amount, elapsed_days))
        ELSE Append(cfs, Event(payment_date, payment_amount, elapsed_days))

\* lines 55-63: the tax-year checkpoint after loop iteration index
AppendCheckpoint(cashflow_dates, index, cfs) ==
    LET payment_date == cashflow_dates[index + 1]
        next_end_of_tax_year == NextEndOfTaxYear(payment_date)
    IN  IF index < Len(cashflow_dates) - 1
           /\ Before(next_end_of_tax_year, cashflow_dates[index + 2])
        THEN Append(cfs, Event(next_end_of_tax_year, 0,
                               DaysBetween(next_end_of_tax_year, payment_date)))
        ELSE cfs

\* lines 42-63: the list after loop iterations 0..index.  The break of the
\* last iteration skips only a checkpoint that its own guard already excludes.
RECURSIVE CashflowLoop(_, _, _)
CashflowLoop(b, cashflow_dates, index) ==
    AppendCheckpoint(cashflow_dates, index,
        AppendPayment(b, cashflow_dates, index,
            IF index = 0 THEN << >> ELSE CashflowLoop(b, cashflow_dates, index - 1)))

\* lines 65-70: the trailing checkpoint
TrailingEndOfTaxYear(last_payment) ==
    IF Month(last_payment) < 3
    THEN EndOfTaxYear(Year(last_payment))
    ELSE EndOfTaxYear(Year(last_payment) + 1)

populate_cashflows(b, dates) ==
    LET cashflow_dates == <<b.settlement_date>> \o dates
        looped == CashflowLoop(b, cashflow_dates, Len(cashflow_dates) - 1)
        last_payment == dates[Len(dates)]
        next_end_of_tax_year == TrailingEndOfTaxYear(last_payment)
    IN  Append(looped, Event(next_end_of_tax_year, 0,
                             DaysBetween(next_end_of_tax_year, last_payment)))

(***************************************************************************)
(* validate_inputs                                                         *)
(***************************************************************************)
validate_inputs(b) ==
    IF b.purchase_price <= 0 THEN "Purchase price must be greater than 0"
    ELSE IF b.face_value <= 0 THEN "Face value must be greater than 0"
    ELSE IF b.coupon_rate <= 0 /\ b.coupon_rate >= PercentUnit
    THEN "Coupon rate must be greater than 0 and less than 1"
    ELSE IF b.coupon_frequency \notin {1, 2, 4, 6, 12}
    THEN "Coupon frequency must be one of 1, 2, 4, 6, or 12"
    ELSE IF b.first_coupon_amount < 0 THEN "First coupon amount cannot be negative"
    ELSE IF Before(b.first_coupon_date, b.settlement_date)
    THEN "Settlement date must be before first coupon date"
    ELSE IF Before(b.maturity_date, b.first_coupon_date)
    THEN "First coupon date must be before maturity date"
    ELSE None

(***************************************************************************)
(* Fixed-point powers: b ** e with b and the result in units of 1/Scale.   *)
(***************************************************************************)
\* h * h * m for fixed-point h and m
SquareTimes(h, m) == ((((h * h) \div Scale) * m) \div Scale)

RECURSIVE PowFix(_, _)
PowFix(b, e) ==
    IF e = 0 THEN Scale
    ELSE IF e < 0 THEN (Scale * Scale) \div PowFix(b, -e)
    ELSE SquareTimes(PowFix(b, e \div 2), IF e % 2 = 1 THEN b ELSE Scale)

\* x ** (1 / 365): the largest growth factor whose 365th power is at most x
RootSearch == 8
DailyRoot(x) ==
    LET cands == {r \in (Scale - RootSearch)..(Scale + RootSearch) :
                     PowFix(r, DaysPerYear) <= x}
    IN  IF cands = {} THEN Scale - RootSearch
        ELSE CHOOSE r \in cands : \A q \in cands : q <= r

(***************************************************************************)
(* calc_daily_rate                                                         *)
(***************************************************************************)
calc_daily_rate(y, frequency) ==
    LET true_rate == PowFix(Scale + (y \div frequency), frequency) - Scale
    IN  DailyRoot(Scale + true_rate) - Scale

(***************************************************************************)
(* populate_interest_principle_columns                                     *)
(***************************************************************************)
\* sign slip: the balance itself instead of the amount owed
CurrentInterestSignSlip(rate, elapsed_days, closing_principal) ==
    ((PowFix(Scale + rate, elapsed_days) - Scale) * closing_principal) \div Scale

CurrentInterest(rate, elapsed_days, closing_principal) ==
    ((PowFix(Scale + rate, elapsed_days) - Scale) * (-closing_principal)) \div Scale

\* lines 95-111: new_columns after rows 0..index
RECURSIVE InterestPrincipalLoop(_, _, _)
InterestPrincipalLoop(cfs, rate, index) ==
    IF index = 0
    THEN <<[CurrentInterest |-> 0,
            CurrentPrincipal |-> cfs[1].CashFlow,
            CumulativeInterest |-> 0,
            ClosingPrincipal |-> cfs[1].CashFlow]>>
    ELSE LET cols == InterestPrincipalLoop(cfs, rate, index - 1)
             prev == cols[Len(cols)]
             current_interest ==
                 CurrentInterest(rate, cfs[index + 1].ElapsedDays, prev.ClosingPrincipal)
             current_principal == cfs[index + 1].CashFlow - current_interest
         IN  Append(cols, [CurrentInterest |-> current_interest,
                           CurrentPrincipal |-> current_principal,
                           CumulativeInterest |-> prev.CumulativeInterest + current_interest,
                           ClosingPrincipal |-> prev.ClosingPrincipal + current_principal])

populate_interest_principle_columns(cfs, rate) ==
    InterestPrincipalLoop(cfs, rate, Len(cfs) - 1)

(***************************************************************************)
(* interest_to_balance_data                                                *)
(***************************************************************************)
RECURSIVE SumSeq(_, _, _)
\* s[lo] + ... + s[hi] (1-based, inclusive; empty when hi < lo)
SumSeq(s, lo, hi) == IF hi < lo THEN 0 ELSE s[hi] + SumSeq(s, lo, hi - 1)

IsEndOfTaxYear(d) == Month(d) = 3 /\ Day(d) = 31

\* df.loc[0:(index-1), 'InterestToBalance'].sum(), rows 0-based and inclusive
\* slice slip: an exclusive end, as a positional slice would have
PriorInterestToBalanceExclusive(balances, index) == SumSeq(balances, 1, index - 1)

PriorInterestToBalance(balances, index) == SumSeq(balances, 1, index)

\* lines 116-121: the InterestToBalance column after rows 0..index
RECURSIVE InterestToBalanceLoop(_, _, _)
InterestToBalanceLoop(cfs, cols, index) ==
    LET balances == IF index = 0 THEN << >>
                    ELSE InterestToBalanceLoop(cfs, cols, index - 1)
    IN  IF ~IsEndOfTaxYear(cfs[index + 1].Date)
        THEN Append(balances, 0)
        ELSE Append(balances, cols[index + 1].CumulativeInterest
                              - PriorInterestToBalance(balances, index))

interest_to_balance_data(cfs, cols) == InterestToBalanceLoop(cfs, cols, Len(cfs) - 1)

(***************************************************************************)
(* tax_to_declare                                                          *)
(***************************************************************************)
CashFlowColumn(cfs) == [i \in 1..Len(cfs) |-> cfs[i].CashFlow]

\* lines 130-132: the TaxableInterest column after rows 0..index
RECURSIVE TaxToDeclareLoop(_, _, _, _)
TaxToDeclareLoop(cfs, balances, face_value, index) ==
    LET tax == IF index = 0 THEN << >>
               ELSE TaxToDeclareLoop(cfs, balances, face_value, index - 1)
    IN  IF balances[index + 1] = 0
        THEN Append(tax, 0)
        ELSE Append(tax, balances[index + 1]
                         - SumSeq(CashFlowColumn(cfs), 2, index)
                         - SumSeq(tax, 2, index)
                         + SumSeq(balances, 2, index)
                         + (IF index = Len(cfs) - 1 THEN face_value ELSE 0))

tax_to_declare(cfs, balances, face_value) ==
    TaxToDeclareLoop(cfs, balances, face_value, Len(cfs) - 1)

(***************************************************************************)
(* Inputs                                                                  *)
(***************************************************************************)
PurchasePrices == {0, 100, 1140}
FaceValues == {0, 1200}
CouponRates == {0, 5, 100}
Frequencies == {1, 2, 5}
FirstCouponAmounts == {-1, 0, 30, 600}
SettlementDates == {<<BaseYear - 1, 1, 10>>, <<BaseYear, 1, 15>>, <<BaseYear, 3, 31>>}
FirstCouponDates == {<<BaseYear, 8, 31>>, <<BaseYear, 7, 15>>,
                     <<BaseYear + 1, 1, 15>>, <<BaseYear + 1, 7, 15>>}
MaturityDates == {<<y, md[1], md[2]>> : y \in (BaseYear + 1)..(BaseYear + MaturitySpan),
                                        md \in {<<1, 15>>, <<1, 20>>, <<3, 15>>, <<3, 31>>, <<7, 15>>}}

\* what scipy.optimize.fsolve can hand back: an iterate and its convergence flag
Yields == {-500, 0, 500, 2000}
Converged == 1
SolverFlags == {1, 2}

Bonds == [purchase_price : PurchasePrices, face_value : FaceValues,
          coupon_rate : CouponRates, coupon_frequency : Frequencies,
          first_coupon_amount : FirstCouponAmounts,
          settlement_date : SettlementDates,
          first_coupon_date : FirstCouponDates,
          maturity_date : MaturityDates]

(***************************************************************************)
(* The run of one bond through app.process_single_input.                   *)
(***************************************************************************)
Init ==
    /\ bond \in Bonds
    /\ pc = "validate_inputs"
    /\ error = None
    /\ payment_dates = << >>
    /\ cashflows = << >>
    /\ ier = 0
    /\ ytm = 0
    /\ daily_rate = 0
    /\ new_columns = << >>
    /\ itb = << >>
    /\ taxable = << >>
    /\ result = None

\* app.py 115-117
ValidateInputs ==
    /\ pc = "validate_inputs"
    /\ error' = validate_inputs(bond)
    /\ IF error' # None
       THEN pc' = "done" /\ result' = "ValueError"
       ELSE pc' = "populate_cashflows" /\ UNCHANGED result
    /\ UNCHANGED <<bond, payment_dates, cashflows, ier, ytm, daily_rate,
                   new_columns, itb, taxable>>

PopulateCashflows ==
    /\ pc = "populate_cashflows"
    /\ payment_dates' = generate_payment_dates(bond.first_coupon_date,
                            bond.maturity_date, bond.coupon_frequency)
    /\ cashflows' = populate_cashflows(bond, payment_dates')
    /\ pc' = "calculate_ytm"
    /\ UNCHANGED <<bond, error, ier, ytm, daily_rate, new_columns, itb, taxable, result>>

\* fsolve is called without full_output: its flag is dropped and x[0] returned
CalculateYtm ==
    /\ pc = "calculate_ytm"
    /\ \E x \in Yields, flag \in SolverFlags :
          /\ ier' = flag
          /\ ytm' = x
    /\ pc' = "calc_daily_rate"
    /\ UNCHANGED <<bond, error, payment_dates, cashflows, daily_rate,
                   new_columns, itb, taxable, result>>

CalcDailyRate ==
    /\ pc = "calc_daily_rate"
    /\ daily_rate' = calc_daily_rate(ytm, bond.coupon_frequency)
    /\ pc' = "populate_interest_principle_columns"
    /\ UNCHANGED <<bond, error, payment_dates, cashflows, ier, ytm,
                   new_columns, itb, taxable, result>>

PopulateInterestPrincipleColumns ==
    /\ pc = "populate_interest_principle_columns"
    /\ new_columns' = populate_interest_principle_columns(cashflows, daily_rate)
    /\ pc' = "interest_to_balance_data"
    /\ UNCHANGED <<bond, error, payment_dates, cashflows, ier, ytm, daily_rate,
                   itb, taxable, result>>

\* The column does not exist before the first assignment: reading it for a
\* first row dated 31 March raises KeyError.
InterestToBalanceData ==
    /\ pc = "interest_to_balance_data"
    /\ IF IsEndOfTaxYear(cashflows[1].Date)
       THEN pc' = "done" /\ result' = "KeyError" /\ UNCHANGED itb
       ELSE /\ itb' = interest_to_balance_data(cashflows, new_columns)
            /\ pc' = "tax_to_declare"
            /\ UNCHANGED result
    /\ UNCHANGED <<bond, error, payment_dates, cashflows, ier, ytm, daily_rate,
                   new_columns, taxable>>

TaxToDeclare ==
    /\ pc = "tax_to_declare"
    /\ taxable' = tax_to_declare(cashflows, itb, bond.face_value)
    /\ pc' = "return"
    /\ UNCHANGED <<bond, error, payment_dates, cashflows, ier, ytm, daily_rate,
                   new_columns, itb, result>>

\* calculator.py 150-154
Return ==
    /\ pc = "return"
    /\ result' = "BondCalculationResult"
    /\ pc' = "done"
    /\ UNCHANGED <<bond, error, payment_dates, cashflows, ier, ytm, daily_rate,
                   new_columns, itb, taxable>>

Next ==
    \/ ValidateInputs
    \/ PopulateCashflows
    \/ CalculateYtm
    \/ CalcDailyRate
    \/ PopulateInterestPrincipleColumns
    \/ InterestToBalanceData
    \/ TaxToDeclare
    \/ Return

Spec == Init /\ [][Next]_vars

(***************************************************************************)
(* Properties                                                              *)
(***************************************************************************)
Built == cashflows # << >>
Amortized == new_columns # << >>
Allocated == itb # << >>

Last(s) == s[Len(s)]

\* the validation rules as documented
SpecValid(b) ==
    /\ b.purchase_price > 0
    /\ b.face_value > 0
    /\ b.coupon_rate > 0 /\ b.coupon_rate < PercentUnit
    /\ b.coupon_frequency \in {1, 2, 4, 6, 12}
    /\ b.first_coupon_amount >= 0
    /\ ~Before(b.first_coupon_date, b.settlement_date)
    /\ ~Before(b.maturity_date, b.first_coupon_date)

IsCheckpointBefore(e, d) == e.CashFlow = 0 /\ IsEndOfTaxYear(e.Date) /\ Before(e.Date, d)

\* C1: after the settlement event and the checkpoints before the first coupon
\* date comes an event dated at the first coupon date whose cash flow is the
\* first coupon amount, also when that amount is 0.
C1_FirstCouponEventPresent ==
    (Built /\ SpecValid(bond)) =>
        \E i \in 2..Len(cashflows) :
            /\ cashflows[i].Date = bond.first_coupon_date
            /\ cashflows[i].CashFlow = bond.first_coupon_amount
            /\ \A j \in 2..(i - 1) :
                   IsCheckpointBefore(cashflows[j], bond.first_coupon_date)

\* C2: the table has an event dated at the maturity date paying face value
\* plus the regular coupon, and no later event has a non-zero cash flow; also
\* when the first coupon date is the maturity date.
C2_RedemptionAtMaturity ==
    (Built /\ SpecValid(bond)) =>
        \E i \in 1..Len(cashflows) :
            /\ cashflows[i].Date = bond.maturity_date
            /\ cashflows[i].CashFlow =
                   bond.face_value + calculate_coupon_payment_amount(
                       bond.face_value, bond.coupon_rate, bond.coupon_frequency)
            /\ \A j \in (i + 1)..Len(cashflows) : cashflows[j].CashFlow = 0

\* C3: validate_inputs returns None exactly when every documented rule holds;
\* a coupon rate <= 0 or >= 1 is rejected.
C3_ValidationRejectsEveryViolation ==
    pc # "validate_inputs" => (error = None <=> SpecValid(bond))

\* the k-th regularly spaced date: k * step months after start, on the start's
\* day of month or the last day of a shorter month
RegularDate(start, step, k) ==
    LET y == AddMonthsYear(Year(start), Month(start), k * step)
        m == AddMonthsMonth(Year(start), Month(start), k * step)
    IN  <<y, m, IF Day(start) <= DaysInMonth(y, m) THEN Day(start) ELSE DaysInMonth(y, m)>>

RECURSIVE RegularDates(_, _, _, _)
RegularDates(start, maturity, step, k) ==
    IF Before(maturity, RegularDate(start, step, k)) THEN << >>
    ELSE <<RegularDate(start, step, k)>> \o RegularDates(start, maturity, step, k + 1)

RegularSchedule(start, maturity, frequency) ==
    LET reg == RegularDates(start, maturity, 12 \div frequency, 0)
    IN  IF Last(reg) = maturity THEN reg ELSE Append(reg, maturity)

\* C4: the payment dates are exactly the regularly spaced dates from the start
\* date that are <= maturity, with the maturity date as the final entry.
C4_PaymentDatesAreRegularSchedule ==
    (Built /\ SpecValid(bond)) =>
        payment_dates = RegularSchedule(bond.first_coupon_date, bond.maturity_date,
                                        bond.coupon_frequency)

\* C5: after the allocation walk the InterestToBalance values sum to the
\* CumulativeInterest of the last event, and every event not dated 31 March
\* has InterestToBalance 0.
C5_InterestToBalanceSumsToCumulative ==
    Allocated =>
        /\ SumSeq(itb, 1, Len(itb)) = Last(new_columns).CumulativeInterest
        /\ \A i \in 1..Len(itb) :
               ~IsEndOfTaxYear(cashflows[i].Date) => itb[i] = 0

C5_Witness ==
    /\ Allocated
    /\ Last(new_columns).CumulativeInterest # 0
    /\ \E i, j \in 1..Len(itb) : i < j /\ itb[i] # 0 /\ itb[j] # 0
    /\ \E i \in 1..Len(itb) :
           ~IsEndOfTaxYear(cashflows[i].Date) /\ new_columns[i].CurrentInterest # 0

\* C6 as stated: for documented-valid inputs and a daily rate > 0 the
\* CumulativeInterest column never decreases from one event to the next.
C6_CumulativeInterestMonotone ==
    (Amortized /\ daily_rate > 0 /\ SpecValid(bond)) =>
        \A i \in 2..Len(new_columns) :
            new_columns[i].CumulativeInterest >= new_columns[i - 1].CumulativeInterest

\* C6 amended: for a daily rate > 0, CumulativeInterest does not decrease
\* across any event whose preceding closing principal is <= 0 (money is still
\* owed to the holder).
C6_CumulativeInterestMonotoneWhileOwed ==
    (Amortized /\ daily_rate > 0) =>
        \A i \in 2..Len(new_columns) :
            new_columns[i - 1].ClosingPrincipal <= 0 =>
                new_columns[i].CumulativeInterest >= new_columns[i - 1].CumulativeInterest

C6_Witness ==
    /\ Amortized
    /\ daily_rate > 0
    /\ SpecValid(bond)
    /\ \E i \in 2..Len(new_columns) :
           /\ new_columns[i - 1].ClosingPrincipal < 0
           /\ new_columns[i].CumulativeInterest > new_columns[i - 1].CumulativeInterest
    /\ \E i \in 2..Len(new_columns) : new_columns[i - 1].ClosingPrincipal > 0

\* C7: when the root-finder did not converge, the calculation ends in a
\* NonConvergenceError and hands no yield back (a run that died of another
\* fault in the allocation step is not judged here).
C7_NonConvergenceSurfaced ==
    (pc = "done" /\ SpecValid(bond) /\ ier \notin {0, Converged} /\ result # "KeyError") =>
        result = "NonConvergenceError"

\* C8: the first event has Elapsed Days 0 and every later event's Elapsed Days
\* is the number of days since the event just before it in the table.
C8_ElapsedDaysSincePreviousEvent ==
    (Built /\ SpecValid(bond)) =>
        /\ cashflows[1].ElapsedDays = 0
        /\ \A i \in 2..Len(cashflows) :
               cashflows[i].ElapsedDays =
                   DaysBetween(cashflows[i].Date, cashflows[i - 1].Date)

\* C9: every 31 March strictly between two consecutive economic events
\* appears in the table as a zero-cash-flow checkpoint.
C9_EveryTaxYearEndBetweenEvents ==
    (Built /\ SpecValid(bond)) =>
        LET cashflow_dates == <<bond.settlement_date>> \o payment_dates
        IN  \A k \in 1..(Len(cashflow_dates) - 1) :
                \A y \in Year(cashflow_dates[k])..Year(cashflow_dates[k + 1]) :
                    (Before(cashflow_dates[k], EndOfTaxYear(y))
                     /\ Before(EndOfTaxYear(y), cashflow_dates[k + 1]))
                    => \E i \in 1..Len(cashflows) :
                           /\ cashflows[i].Date = EndOfTaxYear(y)
                           /\ cashflows[i].CashFlow = 0

\* the first 31 March strictly later than d
FirstTaxYearEndAfter(d) ==
    LET y == CHOOSE c \in Year(d)..(Year(d) + 1) :
                 /\ Before(d, EndOfTaxYear(c))
                 /\ \A e \in Year(d)..(c - 1) : ~Before(d, EndOfTaxYear(e))
    IN  EndOfTaxYear(y)

\* C10: the last event is a zero-cash-flow checkpoint dated at the first
\* 31 March strictly later than the maturity date.
C10_TrailingCheckpointAtNextTaxYearEnd ==
    (Built /\ SpecValid(bond)) =>
        /\ Last(cashflows).CashFlow = 0
        /\ Last(cashflows).Date = FirstTaxYearEndAfter(bond.maturity_date)

====
